---- MODULE Spec2Model ----
(***************************************************************************)
(* Model of pygui: a Frame (window + render loop) and its Canvas (FIFO     *)
(* queue of draw actions drained once per render tick).                    *)
(*                                                                         *)
(* Conventions.  Option<T> is a sequence of length 0 (None) or 1 (Some).   *)
(* Scalars (f64) are modelled by integers; a normalized colour channel     *)
(* r as f32 / 255 as f32 is the fraction <<r, 255>>; an f32 alpha is       *)
(* counted in hundredths (100 is 1.0).  A PyResult is a record with a      *)
(* kind ("Ok" or the exception type) and the exception message.            *)
(***************************************************************************)
EXTENDS Integers, Sequences, FiniteSets, TLC

VARIABLES
    started,        \* Frame.started
    draw_handler,   \* Frame.draw_handler : Option<PyObject>
    event_handler,  \* Frame.event_handler : Option<PyObject>
    window,         \* Frame.window : the window's settings and state as kept by the backend
    draw_queue,     \* Canvas.draw_queue : VecDeque<DrawAction>
    size,           \* Canvas.size
    pc,             \* position of the thread that called start()
    startResult,    \* value returned by the start() call that entered the loop
    lastEvent,      \* last value returned by window.next() inside start()
    raised,         \* error raised by the draw handler, if any
    tickLog,        \* steps performed by the current render tick, in order
    processed,      \* draw actions matched by the current tick's draw_canvas, in order
    surface,        \* drawing calls made on the graphics context by that draw_canvas
    invoked,        \* handlers called by the loop during the current iteration
    enqueued,       \* draw actions enqueued with success and not yet taken by a draw_canvas
    drained,        \* value of enqueued taken by the current iteration's draw_canvas
    released,       \* handler references given up by the last operation
    last            \* the last operation performed: name, arguments, result

vars == <<started, draw_handler, event_handler, window, draw_queue, size, pc,
          startResult, lastEvent, raised, tickLog, processed, surface, invoked,
          enqueued, drained, released, last>>

(***************************************************************************)
(* Bounds and input sets                                                   *)
(***************************************************************************)
MaxQueue == 2

None == <<>>
Some(v) == <<v>>
unwrap_or(o, d) == IF o = None THEN d ELSE o[1]

Red == <<255, 0, 0, None>>
Odd == <<300, -5, 128, Some(150)>>
ColorInputs == {Red}
FillInputs == {None, Some(Odd)}
PointInputs == {<<10, 10>>}
Tri == << <<0, 0>>, <<4, 0>>, <<0, 3>> >>
Quad == << <<0, 0>>, <<4, 0>>, <<4, 4>>, <<0, 4>> >>
PolyInputs == { [vertices |-> <<>>, line_width |-> None, fill_color |-> None],
                [vertices |-> SubSeq(Tri, 1, 1), line_width |-> None, fill_color |-> None],
                [vertices |-> SubSeq(Tri, 1, 2), line_width |-> None, fill_color |-> Some(Odd)],
                [vertices |-> Tri, line_width |-> None, fill_color |-> Some(Odd)],
                [vertices |-> Quad, line_width |-> Some(2), fill_color |-> None] }
Handlers == {"h1", "h2"}
EventHandlers == {"h2"}
CallbackErrors == {"KeyError"}
Events == {"render", "input"}
SizeInputs == { <<2, 1>>, <<0, 1>>, <<1, 0>> }
PositionInputs == { <<0, 0>>, <<-1, 5>> }
InitSize == <<1, 1>>
InitPosition == <<0, 0>>
DimInputs == {-1, 0, 1, 2}
FlagInputs == {None, Some(TRUE), Some(FALSE)}
ResolutionInputs == {None, Some(<<800, 600>>), Some(<<640, 640>>), Some(<<0, 600>>),
                     Some(<<800, -1>>)}
ChannelInputs == {-1, 0, 128, 255, 256}
AlphaInputs == {-50, 0, 50, 100, 150}
MonitorMode == <<1920, 1080>>

Ok == [kind |-> "Ok", msg |-> <<>>, value |-> <<>>]
OkValue(v) == [kind |-> "Ok", msg |-> <<>>, value |-> <<v>>]
Err(kind, msg) == [kind |-> kind, msg |-> msg, value |-> <<>>]
Blocked == [kind |-> "Blocked", msg |-> <<>>, value |-> <<>>]
Call(op, args, result) == [op |-> op, args |-> args, result |-> result]

(***************************************************************************)
(* canvas.rs : Color                                                       *)
(***************************************************************************)
MIN == 0
MAX == 255
AlphaOne == 100

Min2(a, b) == IF a < b THEN a ELSE b
Max2(a, b) == IF a > b THEN a ELSE b

\* the conversion without the lower clamp of the channels
into_unfloored(color) ==
    LET r == Min2(color[1], MAX)
        g == Min2(color[2], MAX)
        b == Min2(color[3], MAX)
        a == Min2(Max2(unwrap_or(color[4], AlphaOne), 0), AlphaOne)
    IN  << <<r, MAX>>, <<g, MAX>>, <<b, MAX>>, a >>

\* impl Into<[f32; 4]> for Color
into(color) ==
    LET r == Max2(Min2(color[1], MAX), MIN)
        g == Max2(Min2(color[2], MAX), MIN)
        b == Max2(Min2(color[3], MAX), MIN)
        a == Min2(Max2(unwrap_or(color[4], AlphaOne), 0), AlphaOne)
    IN  << <<r, MAX>>, <<g, MAX>>, <<b, MAX>>, a >>

\* the literal [0.0, 0.0, 0.0, 1.0] of draw_canvas
Black == << <<0, MAX>>, <<0, MAX>>, <<0, MAX>>, AlphaOne >>

(***************************************************************************)
(* canvas.rs : the drawing calls draw_canvas makes on the graphics context *)
(***************************************************************************)
ClearOp(rgba) == [op |-> "clear", color |-> rgba]

\* rectangle::square(x, y, 1.0) drawn by Rectangle::new(color)
PointOps(d) ==
    << [op |-> "rectangle", color |-> into(d.color),
        rect |-> <<d.point[1], d.point[2], 1, 1>>] >>

\* ellipse::circle(x, y, radius)
circle(center, radius) ==
    <<center[1] - radius, center[2] - radius, 2 * radius, 2 * radius>>

\* Ellipse::new_border(line_color, width), recoloured when a fill is given
CircleOps(d) ==
    << [op |-> "ellipse",
        border |-> into(d.line_color),
        width |-> unwrap_or(d.line_width, 1),
        fill |-> IF d.fill_color # None THEN Some(into(d.fill_color[1])) ELSE None,
        rect |-> circle(d.center, d.radius)] >>

ArcOps(d) ==
    << [op |-> "circle_arc",
        color |-> into(d.line_color),
        width |-> unwrap_or(d.line_width, 1),
        start |-> d.bounds[1],
        end |-> d.bounds[2],
        rect |-> circle(d.center, d.radius)] >>

\* the edge loop without the edge that closes the polygon
PolygonEdges_open(d) ==
    LET slice == d.vertices
        n == Len(slice)
    IN  [k \in 1..(n - 1) |->
            [op |-> "line",
             color |-> into(d.line_color),
             width |-> unwrap_or(d.line_width, 1),
             line |-> <<slice[k][1], slice[k][2], slice[k + 1][1], slice[k + 1][2]>>]]

\* for i in 0..slice.len(): slice[i] to slice[(i + 1) % slice.len()]
\* (indices are 1-based here: 0-based i is k - 1)
PolygonEdges(d) ==
    LET slice == d.vertices
        n == Len(slice)
    IN  [k \in 1..n |->
            [op |-> "line",
             color |-> into(d.line_color),
             width |-> unwrap_or(d.line_width, 1),
             line |-> <<slice[k][1], slice[k][2],
                        slice[(k % n) + 1][1], slice[(k % n) + 1][2]>>]]

PolygonFill(d) ==
    IF d.fill_color # None
    THEN << [op |-> "polygon", color |-> into(d.fill_color[1]), vertices |-> d.vertices] >>
    ELSE <<>>

PolygonOps(d) == PolygonFill(d) \o PolygonEdges(d)

\* the match of draw_canvas; Image and the catch-all arm draw nothing
DrawOps(d) ==
    CASE d.kind = "Clear" -> << ClearOp(into(d.color)) >>
      [] d.kind = "Point" -> PointOps(d)
      [] d.kind = "Circle" -> CircleOps(d)
      [] d.kind = "Arc" -> ArcOps(d)
      [] d.kind = "Polygon" -> PolygonOps(d)
      [] OTHER -> <<>>

\* pop_front taking the newest element instead of the oldest
pop_front_newest(queue) ==
    [item |-> queue[Len(queue)], rest |-> SubSeq(queue, 1, Len(queue) - 1)]

\* VecDeque::pop_front on a non-empty queue
pop_front(queue) == [item |-> Head(queue), rest |-> Tail(queue)]

\* draw_canvas without its opening clear
FirstOps_missing == <<>>

\* the hard-coded clear that opens draw_canvas
FirstOps == << ClearOp(Black) >>

\* while let Some(d) = self.draw_queue.pop_front() { match d {...} }
RECURSIVE DrainLoop(_, _, _)
DrainLoop(queue, done, ops) ==
    IF queue = <<>>
    THEN [draw_queue |-> queue, processed |-> done, surface |-> ops]
    ELSE LET p == pop_front(queue)
         IN  DrainLoop(p.rest, Append(done, p.item), ops \o DrawOps(p.item))

\* draw_canvas reading the queue without taking the actions out of it
draw_canvas_kept(queue) ==
    [DrainLoop(queue, <<>>, FirstOps) EXCEPT !.draw_queue = queue]

\* Canvas::draw_canvas
draw_canvas(queue) == DrainLoop(queue, <<>>, FirstOps)

\* update_size that keeps the stored size
update_size_stale(sz) == size

\* Canvas::update_size
update_size(sz) == sz

\* assert_pyval!(cond, fmt, arg): the error returned when cond is false
assert_pyval(cond, fmt, arg) ==
    IF cond THEN Ok ELSE Err("ValueError", <<fmt, arg>>)

\* the DrawAction values built by the enqueue methods
ClearAction(color) == [kind |-> "Clear", color |-> color]
PointAction(point, color) == [kind |-> "Point", point |-> point, color |-> color]
CircleAction(center, radius, line_color, line_width, fill_color) ==
    [kind |-> "Circle", center |-> center, radius |-> radius,
     line_width |-> line_width, line_color |-> line_color, fill_color |-> fill_color]
ArcAction(center, radius, bounds, line_color, line_width) ==
    [kind |-> "Arc", center |-> center, radius |-> radius,
     line_width |-> line_width, line_color |-> line_color, bounds |-> bounds]
PolygonAction(vertices, line_color, line_width, fill_color) ==
    [kind |-> "Polygon", vertices |-> vertices, line_color |-> line_color,
     line_width |-> line_width, fill_color |-> fill_color]

\* VecDeque::push_back
push_back(queue, d) == Append(queue, d)

\* The window built by create_frame from WindowSettings::new(title, (width,
\* height)).resizable(..).fullscreen(..); request is the video mode of the
\* last set_monitor call, focused the focus state kept by the backend.
NewWindow(width, height, resizable, fullscreen) ==
    [size |-> <<width, height>>, position |-> InitPosition, should_close |-> FALSE,
     resizable |-> resizable, fullscreen |-> fullscreen,
     focused |-> FALSE, request |-> None]

(***************************************************************************)
(* Initial state: the Frame built by create_frame, nothing called yet      *)
(***************************************************************************)
Init ==
    /\ started = FALSE
    /\ draw_handler = None
    /\ event_handler = None
    /\ window = NewWindow(InitSize[1], InitSize[2], TRUE, FALSE)
    /\ draw_queue = <<>>
    /\ size = <<0, 0>>
    /\ pc = "created"
    /\ startResult = None
    /\ lastEvent = "none"
    /\ raised = None
    /\ tickLog = <<>>
    /\ processed = <<>>
    /\ surface = <<>>
    /\ invoked = <<>>
    /\ enqueued = <<>>
    /\ drained = <<>>
    /\ released = <<>>
    /\ last = Call("create_frame", <<>>, Ok)

\* The embedder's thread can call into the Frame unless it is blocked inside
\* the loop of start(); while the draw handler runs it can call again.
CanCall == pc \in {"created", "callback", "stopped"}

\* The Canvas is handed to the embedder only as the draw handler's argument
\* and enqueue calls are made from inside that handler.
CanDraw == pc = "callback"

frameVars == <<started, draw_handler, event_handler, window>>
canvasVars == <<draw_queue, size>>
loopVars == <<pc, startResult, lastEvent, raised, tickLog, processed, surface, invoked, drained>>
Invocation(slot, handler) == [slot |-> slot, handler |-> handler]

(***************************************************************************)
(* canvas.rs : the enqueue methods                                         *)
(***************************************************************************)
clear ==
    \E color \in ColorInputs :
        /\ CanDraw
        /\ released' = <<>>
        /\ Len(draw_queue) < MaxQueue
        /\ draw_queue' = push_back(draw_queue, ClearAction(color))
        /\ enqueued' = Append(enqueued, ClearAction(color))
        /\ last' = Call("clear", <<>>, Ok)
        /\ UNCHANGED <<frameVars, size, loopVars>>

draw_point ==
    \E point \in PointInputs, color \in ColorInputs :
        /\ CanDraw
        /\ released' = <<>>
        /\ Len(draw_queue) < MaxQueue
        /\ draw_queue' = push_back(draw_queue, PointAction(point, color))
        /\ enqueued' = Append(enqueued, PointAction(point, color))
        /\ last' = Call("draw_point", <<>>, Ok)
        /\ UNCHANGED <<frameVars, size, loopVars>>

\* draw_image enqueueing the Image action and reporting success
draw_image_enqueued ==
    /\ CanDraw
    /\ Len(draw_queue) < MaxQueue
    /\ released' = <<>>
    /\ draw_queue' = push_back(draw_queue, [kind |-> "Image"])
    /\ enqueued' = Append(enqueued, [kind |-> "Image"])
    /\ last' = Call("draw_image", <<>>, Ok)
    /\ UNCHANGED <<frameVars, size, loopVars>>

draw_image ==
    /\ CanDraw
    /\ released' = <<>>
    /\ last' = Call("draw_image", <<>>,
                    Err("NotImplementedError", <<"draw_image is not yet implemented">>))
    /\ UNCHANGED <<frameVars, canvasVars, loopVars, enqueued>>

draw_circle ==
    \E center \in PointInputs, line_color \in ColorInputs, fill_color \in FillInputs :
        /\ CanDraw
        /\ released' = <<>>
        /\ Len(draw_queue) < MaxQueue
        /\ draw_queue' = push_back(draw_queue,
                            CircleAction(center, 20, line_color, None, fill_color))
        /\ enqueued' = Append(enqueued,
                            CircleAction(center, 20, line_color, None, fill_color))
        /\ last' = Call("draw_circle", <<>>, Ok)
        /\ UNCHANGED <<frameVars, size, loopVars>>

draw_arc ==
    \E center \in PointInputs, line_color \in ColorInputs :
        /\ CanDraw
        /\ released' = <<>>
        /\ Len(draw_queue) < MaxQueue
        /\ draw_queue' = push_back(draw_queue,
                            ArcAction(center, 20, <<0, 3>>, line_color, Some(2)))
        /\ enqueued' = Append(enqueued,
                            ArcAction(center, 20, <<0, 3>>, line_color, Some(2)))
        /\ last' = Call("draw_arc", <<>>, Ok)
        /\ UNCHANGED <<frameVars, size, loopVars>>

\* the check of draw_polygon with a limit that is off by one
polygon_check_two(len) ==
    IF len >= 2 THEN Ok
    ELSE Err("ValueError", <<"Polygon must have 3 or more vertices, got {}", len>>)

\* the check of draw_polygon formatting the limit instead of the length
polygon_check_limit(len) ==
    IF len >= 3 THEN Ok
    ELSE Err("ValueError", <<"Polygon must have 3 or more vertices, got {}", 3>>)

\* the check that opens draw_polygon
polygon_check(len) ==
    assert_pyval(len >= 3, "Polygon must have 3 or more vertices, got {}", len)

draw_polygon ==
    \E p \in PolyInputs, line_color \in ColorInputs :
        LET len == Len(p.vertices)
            res == polygon_check(len)
            d == PolygonAction(p.vertices, line_color, p.line_width, p.fill_color)
        IN  /\ CanDraw
            /\ released' = <<>>
            /\ IF res # Ok
               THEN /\ UNCHANGED <<draw_queue, enqueued>>
               ELSE /\ Len(draw_queue) < MaxQueue
                    /\ draw_queue' = push_back(draw_queue, d)
                    /\ enqueued' = Append(enqueued, d)
            /\ last' = Call("draw_polygon", <<p.vertices>>, res)
            /\ UNCHANGED <<frameVars, size, loopVars>>

\* get_size answering with the size of the window instead of the stored one
get_size_live ==
    /\ CanDraw
    /\ released' = <<>>
    /\ last' = Call("get_size", <<>>, OkValue(window.size))
    /\ UNCHANGED <<frameVars, canvasVars, loopVars, enqueued>>

\* Canvas::get_size
get_size ==
    /\ CanDraw
    /\ released' = <<>>
    /\ last' = Call("get_size", <<>>, OkValue(size))
    /\ UNCHANGED <<frameVars, canvasVars, loopVars, enqueued>>

(***************************************************************************)
(* frame.rs : start() and its loop                                         *)
(***************************************************************************)
StartedError == Err("RuntimeError", <<"The frame can only be started once">>)

\* start() without the latch check
start_check_absent(isStarted) == Ok

\* `if self.started { return Err(..) }`
start_check(isStarted) == IF isStarted THEN StartedError ELSE Ok

\* start(), up to the first window.next(): the latch check and the latch
start ==
    /\ CanCall
    /\ released' = <<>>
    /\ IF start_check(started) # Ok
       THEN /\ last' = Call("start", <<>>, start_check(started))
            /\ UNCHANGED <<frameVars, canvasVars, loopVars, enqueued>>
       ELSE /\ started' = TRUE
            /\ pc' = "loop"
            /\ last' = Call("start", <<>>, Blocked)
            /\ UNCHANGED <<draw_handler, event_handler, window, canvasVars, startResult,
                           lastEvent, raised, tickLog, processed, surface, invoked,
                           enqueued, drained>>

\* an event iterator that does not end when the window should close
next_events_endless == Events

\* window.next(): the backend's event iterator ends (None) once the window
\* should close, and yields an event otherwise
next_events == IF window.should_close THEN {"none"} ELSE Events

\* a loop that passes the events it does not render to the event handler
handle_event_dispatch(e, handler) ==
    IF handler # None THEN << Invocation("event_handler", handler[1]) >> ELSE <<>>

\* what the loop does with an event that is no render event
\* (`// TODO: event handling`): no handler is called
handle_event(e, handler) == <<>>

\* One iteration of `while let Some(e) = self.window.next()`, up to the call
\* of the draw handler when one is registered, to the end of the iteration
\* otherwise.  When next() is None the loop ends and start() returns Ok.
start_loop ==
    \E e \in next_events :
        /\ pc = "loop"
        /\ released' = <<>>
        /\ lastEvent' = e
        /\ UNCHANGED <<frameVars, raised>>
        /\ IF e = "none"
           THEN /\ pc' = "stopped"
                /\ startResult' = Some(Ok)
                /\ last' = Call("start_return", <<>>, Ok)
                /\ tickLog' = <<>> /\ processed' = <<>> /\ surface' = <<>>
                /\ invoked' = <<>> /\ drained' = <<>>
                /\ UNCHANGED <<canvasVars, enqueued>>
           ELSE IF e = "render"
           THEN /\ size' = update_size(window.size)
                /\ startResult' = startResult
                /\ IF draw_handler # None
                   THEN /\ pc' = "callback"
                        /\ invoked' = << Invocation("draw_handler", draw_handler[1]) >>
                        /\ tickLog' = <<"update_size", "draw_handler">>
                        /\ processed' = <<>> /\ surface' = <<>> /\ drained' = <<>>
                        /\ UNCHANGED <<draw_queue, enqueued>>
                        /\ last' = Call("draw_handler", <<>>, Blocked)
                   ELSE LET r == draw_canvas(draw_queue)
                        IN  /\ pc' = "loop"
                            /\ invoked' = <<>>
                            /\ tickLog' = <<"update_size", "draw_canvas">>
                            /\ draw_queue' = r.draw_queue
                            /\ processed' = r.processed
                            /\ surface' = r.surface
                            /\ drained' = enqueued
                            /\ enqueued' = <<>>
                            /\ last' = Call("draw_canvas", <<>>, Ok)
           ELSE /\ pc' = "loop"
                /\ startResult' = startResult
                /\ tickLog' = <<>> /\ processed' = <<>> /\ surface' = <<>>
                /\ drained' = <<>>
                /\ invoked' = handle_event(e, event_handler)
                /\ last' = Call("event", <<e>>, Ok)
                /\ UNCHANGED <<canvasVars, enqueued>>

\* The draw handler returns normally: the rest of the iteration, draw_2d
\* with draw_canvas.
handler_return ==
    LET r == draw_canvas(draw_queue)
    IN  /\ pc = "callback"
        /\ released' = <<>>
        /\ pc' = "loop"
        /\ tickLog' = Append(tickLog, "draw_canvas")
        /\ draw_queue' = r.draw_queue
        /\ processed' = r.processed
        /\ surface' = r.surface
        /\ drained' = enqueued
        /\ enqueued' = <<>>
        /\ last' = Call("draw_canvas", <<>>, Ok)
        /\ UNCHANGED <<frameVars, size, startResult, lastEvent, raised, invoked>>

\* start() swallowing the error of the draw handler
handler_error_swallowed(err) == Ok

\* `if let Err(err) = ret { return Err(err); }`: what start() returns when
\* the draw handler raised err
handler_error(err) == Err(err, <<>>)

\* The draw handler raises.
handler_raise ==
    \E err \in CallbackErrors :
        /\ pc = "callback"
        /\ released' = <<>>
        /\ pc' = "stopped"
        /\ raised' = Some(err)
        /\ startResult' = Some(handler_error(err))
        /\ last' = Call("start_return", <<>>, handler_error(err))
        /\ UNCHANGED <<frameVars, canvasVars, enqueued, lastEvent, tickLog, processed,
                       surface, invoked, drained>>

(***************************************************************************)
(* frame.rs : handlers and window functions                                *)
(***************************************************************************)
\* an assignment that forgets the value it overwrites
drop_leaked(old) == <<>>

\* `self.draw_handler = Some(handler)` drops the Option<PyObject> it
\* overwrites, and dropping a PyObject gives up its reference
drop(old) == old

set_draw_handler ==
    \E handler \in Handlers :
        /\ CanCall
        /\ released' = drop(draw_handler)
        /\ draw_handler' = Some(handler)
        /\ last' = Call("set_draw_handler", <<handler>>, Ok)
        /\ UNCHANGED <<started, event_handler, window, canvasVars, loopVars, enqueued>>

set_event_handler ==
    \E handler \in EventHandlers :
        /\ CanCall
        /\ released' = drop(event_handler)
        /\ event_handler' = Some(handler)
        /\ last' = Call("set_event_handler", <<handler>>, Ok)
        /\ UNCHANGED <<started, draw_handler, window, canvasVars, loopVars, enqueued>>

close ==
    /\ CanCall
    /\ released' = <<>>
    /\ window' = [window EXCEPT !.should_close = TRUE]
    /\ last' = Call("close", <<>>, Ok)
    /\ UNCHANGED <<started, draw_handler, event_handler, canvasVars, loopVars, enqueued>>

\* set_size checking the width only
set_size_check_width(sz) ==
    IF sz[1] > 0 THEN Ok ELSE Err("ValueError", <<"Width must be > 0, got {}", sz[1]>>)

\* the two assert_pyval! of set_size, in order; the second formats size.0
set_size_check(sz) ==
    LET w == assert_pyval(sz[1] > 0, "Width must be > 0, got {}", sz[1])
        h == assert_pyval(sz[2] > 0, "Height must be > 0, got {}", sz[1])
    IN  IF w # Ok THEN w ELSE h

set_size ==
    \E sz \in SizeInputs :
        LET res == set_size_check(sz)
        IN  /\ CanCall
            /\ released' = <<>>
            /\ window' = IF res = Ok THEN [window EXCEPT !.size = sz] ELSE window
            /\ last' = Call("set_size", sz, res)
            /\ UNCHANGED <<started, draw_handler, event_handler, canvasVars, loopVars, enqueued>>

\* set_position makes no check
set_position_check(pos) == Ok

set_position ==
    \E pos \in PositionInputs :
        LET res == set_position_check(pos)
        IN  /\ CanCall
            /\ released' = <<>>
            /\ window' = IF res = Ok THEN [window EXCEPT !.position = pos] ELSE window
            /\ last' = Call("set_position", pos, res)
            /\ UNCHANGED <<started, draw_handler, event_handler, canvasVars, loopVars, enqueued>>

\* The user asks the window to close: the backend sets the should-close flag.
platform_close ==
    /\ ~window.should_close
    /\ released' = <<>>
    /\ window' = [window EXCEPT !.should_close = TRUE]
    /\ last' = Call("platform_close", <<>>, Ok)
    /\ UNCHANGED <<started, draw_handler, event_handler, canvasVars, loopVars, enqueued>>

(***************************************************************************)
(* lib.rs, frame.rs : create_frame and the window functions outside the    *)
(* loop                                                                    *)
(***************************************************************************)
\* create_frame checking the width only
create_frame_check_width(width, height) ==
    IF width > 0 THEN Ok ELSE Err("ValueError", <<"Width must be > 0, got {}", width>>)

\* the two assert_pyval! of create_frame, in order; the second formats width
create_frame_check(width, height) ==
    LET w == assert_pyval(width > 0, "Width must be > 0, got {}", width)
        h == assert_pyval(height > 0, "Height must be > 0, got {}", width)
    IN  IF w # Ok THEN w ELSE h

\* create_frame with resizable defaulting to false
default_resizable_off(resizable) == unwrap_or(resizable, FALSE)

\* `resizable.unwrap_or(true)`
default_resizable(resizable) == unwrap_or(resizable, TRUE)

\* `fullscreen.unwrap_or(false)`
default_fullscreen(fullscreen) == unwrap_or(fullscreen, FALSE)

\* create_frame (the pyfn of lib.rs, then frame::create_frame), called while
\* no Frame exists yet
create_frame ==
    \E width \in DimInputs, height \in DimInputs,
       resizable \in FlagInputs, fullscreen \in FlagInputs :
        LET res == create_frame_check(width, height)
            args == <<width, height, resizable, fullscreen>>
        IN  /\ pc = "none"
            /\ released' = <<>>
            /\ IF res # Ok
               THEN /\ last' = Call("create_frame", args, res)
                    /\ UNCHANGED <<frameVars, canvasVars, loopVars, enqueued>>
               ELSE /\ started' = FALSE
                    /\ draw_handler' = None
                    /\ event_handler' = None
                    /\ window' = NewWindow(width, height, default_resizable(resizable),
                                           default_fullscreen(fullscreen))
                    /\ draw_queue' = <<>>
                    /\ size' = <<0, 0>>
                    /\ pc' = "created"
                    /\ last' = Call("create_frame", args, OkValue("Frame"))
                    /\ UNCHANGED <<startResult, lastEvent, raised, tickLog, processed,
                                   surface, invoked, enqueued, drained>>

\* is_focused: the result of w.is_focused() is discarded, the method
\* returns Ok(())
is_focused ==
    /\ CanCall
    /\ released' = <<>>
    /\ last' = Call("is_focused", <<>>, Ok)
    /\ UNCHANGED <<frameVars, canvasVars, loopVars, enqueued>>

focus ==
    /\ CanCall
    /\ released' = <<>>
    /\ window' = [window EXCEPT !.focused = TRUE]
    /\ last' = Call("focus", <<>>, Ok)
    /\ UNCHANGED <<started, draw_handler, event_handler, canvasVars, loopVars, enqueued>>

\* The user moves the focus to or away from the window.
platform_focus ==
    /\ pc # "none"
    /\ released' = <<>>
    /\ window' = [window EXCEPT !.focused = ~window.focused]
    /\ last' = Call("platform_focus", <<>>, Ok)
    /\ UNCHANGED <<started, draw_handler, event_handler, canvasVars, loopVars, enqueued>>

\* the two assert_pyval! of set_fullscreen, made when a resolution is given
set_fullscreen_check(resolution) ==
    IF resolution = None THEN Ok
    ELSE LET w == assert_pyval(resolution[1][1] > 0,
                               "Resolution width must be > 0, got {}", resolution[1][1])
             h == assert_pyval(resolution[1][2] > 0,
                               "Resolution height must be > 0, got {}", resolution[1][2])
         IN  IF w # Ok THEN w ELSE h

\* `let res = if let Some(res) = resolution { (res.0, res.0) } else
\* { (mode.width, mode.height) }`
fullscreen_resolution(resolution) ==
    IF resolution # None
    THEN <<resolution[1][1], resolution[1][1]>>
    ELSE MonitorMode

set_fullscreen ==
    \E resolution \in ResolutionInputs :
        LET res == set_fullscreen_check(resolution)
        IN  /\ CanCall
            /\ released' = <<>>
            /\ window' = IF res = Ok
                         THEN [window EXCEPT !.request = Some(fullscreen_resolution(resolution))]
                         ELSE window
            /\ last' = Call("set_fullscreen", <<resolution>>, res)
            /\ UNCHANGED <<started, draw_handler, event_handler, canvasVars, loopVars,
                           enqueued>>

\* __clear__ that forgets the event handler
clear_handlers_draw_only(draw, event) ==
    [draw_handler |-> None, event_handler |-> event, released |-> draw]

\* the two `if let Some(handler) = self.X.take() { self.py().release(handler) }`
clear_handlers(draw, event) ==
    [draw_handler |-> None, event_handler |-> None, released |-> draw \o event]

\* PyGCProtocol::__clear__, called by the collector once the Frame is
\* unreachable: not while start() runs, and nothing is called afterwards
__clear__ ==
    LET c == clear_handlers(draw_handler, event_handler)
    IN  /\ pc \in {"created", "stopped"}
        /\ draw_handler' = c.draw_handler
        /\ event_handler' = c.event_handler
        /\ released' = c.released
        /\ pc' = "collected"
        /\ last' = Call("__clear__", <<>>, Ok)
        /\ UNCHANGED <<started, window, canvasVars, startResult, lastEvent, raised,
                       tickLog, processed, surface, invoked, enqueued, drained>>

(***************************************************************************)
(* canvas.rs : Color, as a function of the tuple it is extracted from      *)
(***************************************************************************)
TupleInputs ==
    {<<>>, <<1, 2>>, <<1, 2, 3, 4, 5>>}
    \cup {<<r, g, b>> : r \in ChannelInputs, g \in ChannelInputs, b \in ChannelInputs}
    \cup {<<r, g, b, a>> : r \in ChannelInputs, g \in ChannelInputs, b \in ChannelInputs,
                           a \in AlphaInputs}

\* impl FromPyObject for Color
extract(t) ==
    IF Len(t) # 3 /\ Len(t) # 4
    THEN Err("ValueError", <<"Expected color (r, g, b[, a])">>)
    ELSE OkValue(<<t[1], t[2], t[3], IF Len(t) = 4 THEN Some(t[4]) ELSE None>>)

\* a Color is extracted from an argument of an enqueue method
color_extract ==
    \E t \in TupleInputs :
        /\ CanCall
        /\ released' = <<>>
        /\ last' = Call("extract", t, extract(t))
        /\ UNCHANGED <<frameVars, canvasVars, loopVars, enqueued>>

\* the extracted Color is converted, as draw_canvas does for every colour
color_into ==
    /\ last.op = "extract"
    /\ last.result.kind = "Ok"
    /\ released' = <<>>
    /\ last' = Call("into", last.result.value[1], OkValue(into(last.result.value[1])))
    /\ UNCHANGED <<frameVars, canvasVars, loopVars, enqueued>>

Next ==
    \/ clear
    \/ draw_point
    \/ draw_image
    \/ draw_circle
    \/ draw_arc
    \/ draw_polygon
    \/ get_size
    \/ start
    \/ start_loop
    \/ handler_return
    \/ handler_raise
    \/ set_draw_handler
    \/ set_event_handler
    \/ close
    \/ set_size
    \/ set_position
    \/ platform_close

Spec == Init /\ [][Next]_vars

\* The loop with the window functions that steer it and one enqueue method.
LoopNext ==
    \/ clear
    \/ start
    \/ start_loop
    \/ handler_return
    \/ handler_raise
    \/ set_draw_handler
    \/ set_event_handler
    \/ close
    \/ set_size
    \/ set_position
    \/ platform_close

\* The draw handler returns or raises (it does not block for ever) and the
\* loop keeps pulling events.
LoopSpec ==
    /\ Init
    /\ [][LoopNext]_vars
    /\ WF_vars(start_loop)
    /\ WF_vars(handler_return \/ handler_raise)

InLoop == pc \in {"loop", "callback"}

\* The state before create_frame is called: no Frame and no window yet.
FrameInit ==
    /\ started = FALSE
    /\ draw_handler = None
    /\ event_handler = None
    /\ window = NewWindow(0, 0, FALSE, FALSE)
    /\ draw_queue = <<>>
    /\ size = <<0, 0>>
    /\ pc = "none"
    /\ startResult = None
    /\ lastEvent = "none"
    /\ raised = None
    /\ tickLog = <<>>
    /\ processed = <<>>
    /\ surface = <<>>
    /\ invoked = <<>>
    /\ enqueued = <<>>
    /\ drained = <<>>
    /\ released = <<>>
    /\ last = Call("import", <<>>, Ok)

\* The life of a Frame outside the loop: construction, window functions,
\* handlers, collection.
FrameNext ==
    \/ create_frame
    \/ set_size
    \/ set_position
    \/ is_focused
    \/ focus
    \/ platform_focus
    \/ set_fullscreen
    \/ set_draw_handler
    \/ set_event_handler
    \/ __clear__

FrameSpec == FrameInit /\ [][FrameNext]_vars

\* Colours extracted and converted.
ColorNext ==
    \/ color_extract
    \/ color_into

ColorSpec == Init /\ [][ColorNext]_vars

(***************************************************************************)
(* Properties                                                              *)
(***************************************************************************)

\* C1: a draw_canvas processes exactly the draw actions enqueued with
\* success since the previous one, each once and in enqueue order, and the
\* draw queue is empty when it returns.
C1_RenderOrder ==
    last.op = "draw_canvas" => (processed = drained /\ draw_queue = <<>>)

C1_Witness ==
    /\ last.op = "draw_canvas"
    /\ Len(processed) >= 2
    /\ processed[1] # processed[2]

ClearCount(ops) == Cardinality({j \in 1..Len(ops) : ops[j].op = "clear"})
QueuedClears(ds) == Cardinality({i \in 1..Len(ds) : ds[i].kind = "Clear"})

\* C2: the first drawing call of every draw_canvas is the clear to opaque
\* black, also when the queue was empty, and each queued Clear is one more
\* clear after it.
C2_BlackClearFirst ==
    last.op = "draw_canvas" =>
        /\ Len(surface) >= 1
        /\ surface[1] = [op |-> "clear",
                         color |-> << <<0, 255>>, <<0, 255>>, <<0, 255>>, 100 >>]
        /\ ClearCount(surface) = 1 + QueuedClears(processed)

C2_Witness ==
    /\ last.op = "draw_canvas"
    /\ \E i \in 1..Len(processed) : processed[i].kind = "Clear"

\* C3: draw_polygon with fewer than 3 vertices returns a ValueError whose
\* message carries the vertex count and leaves the queue as it was; with 3
\* or more it returns Ok and the queue grows by that one Polygon at the back.
C3_PolygonValidated ==
    [][ last'.op = "draw_polygon" =>
          LET v == last'.args[1]
              n == Len(v)
          IN  IF n < 3
              THEN /\ last'.result.kind = "ValueError"
                   /\ last'.result.msg[2] = n
                   /\ draw_queue' = draw_queue
              ELSE /\ last'.result = Ok
                   /\ Len(draw_queue') = Len(draw_queue) + 1
                   /\ SubSeq(draw_queue', 1, Len(draw_queue)) = draw_queue
                   /\ draw_queue'[Len(draw_queue')].kind = "Polygon"
                   /\ draw_queue'[Len(draw_queue')].vertices = v ]_vars

C3_Witness ==
    /\ last.op = "draw_polygon"
    /\ Len(last.args[1]) = 2
    /\ last.result.kind = "ValueError"
    /\ draw_queue # <<>>

PolygonOk(d) ==
    d.kind = "Polygon" =>
        LET n == Len(d.vertices)
        IN  /\ n >= 3
            /\ \A k \in 1..n : ((k % n) + 1) \in 1..n

\* C4: every Polygon waiting in the queue or matched by draw_canvas has at
\* least 3 vertices, so the index of the edge loop stays in bounds.
C4_PolygonsDrawable ==
    /\ \A i \in 1..Len(draw_queue) : PolygonOk(draw_queue[i])
    /\ \A i \in 1..Len(processed) : PolygonOk(processed[i])

C4_Witness ==
    /\ last.op = "draw_canvas"
    /\ \E i \in 1..Len(processed) : processed[i].kind = "Polygon"

\* C5: started is false until the first start(), true from then on; a
\* start() made while started is true returns the RuntimeError and changes
\* nothing else.
C5_StartedLatch ==
    [][ /\ (pc' = "created" => ~started')
        /\ (started => started')
        /\ (last'.op = "start" /\ ~started => started' /\ last'.result = Blocked)
        /\ (last'.op = "start" /\ started =>
                /\ last'.result.kind = "RuntimeError"
                /\ last'.result.msg = <<"The frame can only be started once">>
                /\ UNCHANGED <<started, draw_handler, event_handler, window,
                               draw_queue, size, pc, startResult, lastEvent, raised,
                               tickLog, processed, surface, invoked>>) ]_vars

C5_Witness ==
    /\ last.op = "start"
    /\ last.result.kind = "RuntimeError"
    /\ pc = "callback"

\* C6: a render iteration overwrites the canvas size with the window size,
\* then calls the draw handler once if one is registered, then calls
\* draw_canvas once; without a handler the first and the last still happen.
C6_TickOrder ==
    [][ /\ (pc = "loop" /\ lastEvent' = "render" /\ last'.op # "platform_close") =>
              /\ size' = window.size
              /\ IF draw_handler # None
                 THEN /\ pc' = "callback"
                      /\ tickLog' = <<"update_size", "draw_handler">>
                      /\ invoked' = << [slot |-> "draw_handler", handler |-> draw_handler[1]] >>
                 ELSE /\ pc' = "loop"
                      /\ last'.op = "draw_canvas"
                      /\ tickLog' = <<"update_size", "draw_canvas">>
                      /\ invoked' = <<>>
        /\ (pc = "callback" /\ pc' = "callback") => UNCHANGED <<tickLog, invoked, size>>
        /\ (pc = "callback" /\ pc' = "loop") =>
              /\ last'.op = "draw_canvas"
              /\ tickLog' = <<"update_size", "draw_handler", "draw_canvas">>
              /\ UNCHANGED <<invoked, size>> ]_vars

C6_Witness ==
    /\ pc = "loop"
    /\ tickLog = <<"update_size", "draw_handler", "draw_canvas">>
    /\ processed # <<>>
    /\ size # <<0, 0>>

\* C7: when the draw handler raises, start() returns that error at once:
\* no draw_canvas in that iteration, the queue keeps what was enqueued, the
\* loop has ended and the handler was called once.
C7_HandlerErrorPropagates ==
    raised # None =>
        /\ pc = "stopped"
        /\ startResult = Some([kind |-> raised[1], msg |-> <<>>, value |-> <<>>])
        /\ tickLog = <<"update_size", "draw_handler">>
        /\ processed = <<>>
        /\ surface = <<>>
        /\ draw_queue = enqueued
        /\ Len(invoked) = 1

C7_Witness ==
    /\ raised # None
    /\ draw_queue # <<>>
    /\ last.op = "start_return"

\* C8: start() leaves its loop only when the event iterator ended because
\* the window should close (Ok) or when the draw handler raised (that
\* error); once the window should close, start() returns.
C8_StartReturns ==
    /\ [][ (InLoop /\ pc' = "stopped") =>
              \/ /\ pc = "loop"
                 /\ window.should_close
                 /\ startResult' = Some(Ok)
              \/ /\ pc = "callback"
                 /\ raised' # None
                 /\ startResult' = Some([kind |-> raised'[1], msg |-> <<>>, value |-> <<>>]) ]_vars
    /\ (InLoop /\ window.should_close) ~> (pc = "stopped")

C8_Witness ==
    /\ last.op = "start_return"
    /\ startResult = Some(Ok)
    /\ window.should_close
    /\ draw_handler # None

\* C9: an event that is no render event changes neither the canvas size,
\* the queue, started nor the handlers and calls no handler; the event
\* handler is never called.
C9_EventsIgnored ==
    [][ /\ (last'.op = "event" =>
              /\ UNCHANGED <<size, draw_queue, started, draw_handler, event_handler>>
              /\ invoked' = <<>>)
        /\ \A i \in 1..Len(invoked') : invoked'[i].slot # "event_handler" ]_vars

C9_Witness ==
    /\ last.op = "event"
    /\ event_handler # None
    /\ draw_handler # None

NonPositive(pair) == pair[1] <= 0 \/ pair[2] <= 0

\* C10 as claimed: set_size and set_position with a component <= 0 return a
\* ValueError and leave the window as it was.
C10_BothRejectNonPositive ==
    [][ (last'.op \in {"set_size", "set_position"} /\ NonPositive(last'.args)) =>
            /\ last'.result.kind = "ValueError"
            /\ window' = window ]_vars

\* C10: set_size with a width or height <= 0 returns a ValueError and leaves
\* the window as it was; set_position checks nothing, it returns Ok and the
\* pair becomes the window position.
C10_SetSizeRejectsNonPositive ==
    [][ /\ (last'.op = "set_size" /\ NonPositive(last'.args)) =>
              /\ last'.result.kind = "ValueError"
              /\ window' = window
        /\ (last'.op = "set_position") =>
              /\ last'.result = Ok
              /\ window' = [window EXCEPT !.position = last'.args] ]_vars

C10_Witness ==
    /\ last.op = "set_size"
    /\ last.args[1] > 0
    /\ last.result.kind = "ValueError"

\* number of drawing calls a draw action stands for
OpCount(d) ==
    IF d.kind = "Polygon"
    THEN Len(d.vertices) + (IF d.fill_color # None THEN 1 ELSE 0)
    ELSE 1

\* number of drawing calls made before the i-th matched draw action
RECURSIVE OpsBefore(_, _)
OpsBefore(ds, i) == IF i = 1 THEN 1 ELSE OpsBefore(ds, i - 1) + OpCount(ds[i - 1])

\* C11: a rendered Polygon of n vertices with a fill colour gives one fill
\* and then n strokes, the k-th from vertex k to the next one and the last
\* back to the first; without a fill colour the same n strokes and no fill.
C11_PolygonFillThenEdges ==
    last.op = "draw_canvas" =>
        /\ Len(surface) = OpsBefore(processed, Len(processed) + 1)
        /\ \A i \in 1..Len(processed) :
              processed[i].kind = "Polygon" =>
                  LET d == processed[i]
                      v == d.vertices
                      n == Len(v)
                      f == IF d.fill_color # None THEN 1 ELSE 0
                      at == OpsBefore(processed, i)
                  IN  /\ f = 1 => /\ surface[at + 1].op = "polygon"
                                  /\ surface[at + 1].vertices = v
                      /\ \A k \in 1..n :
                            LET to == IF k = n THEN v[1] ELSE v[k + 1]
                            IN  /\ surface[at + f + k].op = "line"
                                /\ surface[at + f + k].line =
                                       <<v[k][1], v[k][2], to[1], to[2]>>

C11_Witness ==
    /\ last.op = "draw_canvas"
    /\ Len(processed) = 2
    /\ processed[1].kind = "Polygon" /\ processed[1].fill_color # None
    /\ processed[2].kind = "Polygon" /\ processed[2].fill_color = None

Clamp(x, lo, hi) == IF x < lo THEN lo ELSE IF x > hi THEN hi ELSE x

\* C12: the conversion clamps each of the three channels on its own to
\* 0..255 before the division by 255, clamps a given alpha to 0.0..1.0 and
\* gives alpha 1.0 when none is given.
C12_ColorClamped ==
    last.op = "into" =>
        LET c == last.args
            out == last.result.value[1]
        IN  /\ \A i \in 1..3 : out[i] = <<Clamp(c[i], 0, 255), 255>>
            /\ out[4] = IF c[4] = <<>> THEN 100 ELSE Clamp(c[4][1], 0, 100)

C12_Witness ==
    /\ last.op = "into"
    /\ last.args = <<-1, 256, 128, <<150>> >>
    /\ last.result.value[1] = << <<0, 255>>, <<255, 255>>, <<128, 255>>, 100 >>

Unimplemented == {"Image", "Polyline", "Line", "Text"}

\* C13: draw_image returns the NotImplementedError and leaves the queue as
\* it was; the queue never holds an Image, Polyline, Line or Text action.
C13_NoUnimplementedActions ==
    [][ /\ (last'.op = "draw_image" =>
              /\ last'.result.kind = "NotImplementedError"
              /\ draw_queue' = draw_queue)
        /\ \A i \in 1..Len(draw_queue') : draw_queue'[i].kind \notin Unimplemented ]_vars

C13_Witness ==
    /\ last.op = "draw_image"
    /\ last.result.kind = "NotImplementedError"
    /\ Len(draw_queue) = 1

\* C14: the canvas size is (0,0) in a new Frame and changes only when a
\* render iteration overwrites it with the window size; get_size returns
\* the stored size and changes nothing.
C14_SizeOnlyFromTick ==
    [][ /\ (pc' = "created" => size' = <<0, 0>>)
        /\ (size' # size => pc = "loop" /\ lastEvent' = "render" /\ size' = window.size)
        /\ (pc = "loop" /\ pc' = "callback" => size' = window.size)
        /\ (last'.op = "get_size" =>
              /\ last'.result.value = <<size>>
              /\ UNCHANGED <<size, draw_queue>>) ]_vars

C14_Witness ==
    /\ last.op = "get_size"
    /\ last.result.value[1] # <<0, 0>>
    /\ last.result.value[1] # window.size

\* C15: create_frame with width <= 0 or height <= 0 returns a ValueError
\* and builds nothing; otherwise it builds the Frame, resizable unless told
\* otherwise, not fullscreen unless told so, not started, without handlers
\* and with an empty queue.
C15_CreateFrame ==
    [][ last'.op = "create_frame" =>
          LET a == last'.args
          IN  IF a[1] <= 0 \/ a[2] <= 0
              THEN /\ last'.result.kind = "ValueError"
                   /\ pc' = "none"
                   /\ UNCHANGED <<started, draw_handler, event_handler, window,
                                  draw_queue, size>>
              ELSE /\ last'.result.kind = "Ok"
                   /\ pc = "none" /\ pc' = "created"
                   /\ window'.size = <<a[1], a[2]>>
                   /\ window'.resizable = (IF a[3] = <<>> THEN TRUE ELSE a[3][1])
                   /\ window'.fullscreen = (IF a[4] = <<>> THEN FALSE ELSE a[4][1])
                   /\ ~started'
                   /\ draw_handler' = <<>>
                   /\ event_handler' = <<>>
                   /\ draw_queue' = <<>> ]_vars

C15_Witness ==
    /\ last.op = "create_frame"
    /\ last.result.kind = "Ok"
    /\ last.args[3] = <<>> /\ last.args[4] = <<>>
    /\ window.resizable /\ ~window.fullscreen
    /\ pc = "created"

\* C16 as claimed: is_focused returns whether the window is focused.
C16_IsFocusedReportsFocus ==
    [][ last'.op = "is_focused" => last'.result.value = <<window.focused>> ]_vars

\* C17: the queue is empty whenever the draw handler is called and whenever
\* the loop is between iterations; the draw_canvas that follows the handler
\* takes exactly what was enqueued during that call.
C17_EnqueueDrainAlternate ==
    [][ /\ (pc # "callback" /\ pc' = "callback" =>
              draw_queue' = <<>> /\ enqueued' = <<>>)
        /\ (pc' = "loop" => draw_queue' = <<>>)
        /\ (pc = "callback" /\ pc' = "loop" =>
              processed' = enqueued /\ processed' = draw_queue) ]_vars

C17_Witness ==
    /\ pc = "loop"
    /\ tickLog = <<"update_size", "draw_handler", "draw_canvas">>
    /\ Len(processed) = 1
    /\ processed[1].kind = "Arc"
    /\ draw_queue = <<>>

\* C18 as claimed: set_fullscreen with a resolution (w, h) requests the
\* video mode w x h, without one the mode of the primary monitor.
C18_FullscreenResolution ==
    [][ (last'.op = "set_fullscreen" /\ last'.result.kind = "Ok") =>
            window'.request = IF last'.args[1] = <<>>
                              THEN <<MonitorMode>>
                              ELSE last'.args[1] ]_vars

\* C19 as claimed: the ValueError of a dimension check carries the value
\* that was rejected, the height when the height is rejected; for
\* create_frame and for set_size.
C19_MessageReportsRejected ==
    [][ (last'.op \in {"create_frame", "set_size"} /\ last'.result.kind = "ValueError") =>
            LET w == last'.args[1]
                h == last'.args[2]
            IN  last'.result.msg[2] = IF w <= 0 THEN w ELSE h ]_vars

\* C20: each handler slot holds at most one handler; __clear__ empties both
\* slots and gives up each reference they held once; a setter gives up the
\* reference it replaces.
C20_HandlersReleased ==
    [][ /\ Len(draw_handler') <= 1 /\ Len(event_handler') <= 1
        /\ (last'.op = "__clear__" =>
              /\ draw_handler' = <<>> /\ event_handler' = <<>>
              /\ released' = draw_handler \o event_handler)
        /\ (last'.op = "set_draw_handler" =>
              /\ released' = draw_handler
              /\ draw_handler' = last'.args
              /\ event_handler' = event_handler)
        /\ (last'.op = "set_event_handler" =>
              /\ released' = event_handler
              /\ event_handler' = last'.args
              /\ draw_handler' = draw_handler) ]_vars

C20_Witness ==
    /\ last.op = "set_draw_handler"
    /\ released # <<>>
    /\ released # draw_handler
====
